---- MODULE Spec2Model ----
(***************************************************************************)
(* A model of transcode.py: one run of main() over a directory tree, with  *)
(* the external encoder (HandBrakeCLI) as a second process that writes the *)
(* temporary output file and exits with a return code.                     *)
(*                                                                         *)
(* File names are sequences of tokens ("a", ".", "mkv", "-converted", ...) *)
(* so that Path.stem, Path.with_suffix and the glob pattern are computed   *)
(* the way pathlib computes them on the characters of the name.  The       *)
(* tokens form a prefix-free code, hence two names are equal as strings    *)
(* exactly when they are equal as token sequences.                         *)
(*                                                                         *)
(* Spec has regular files only (no directories or dangling links named     *)
(* "*.<ext>", no permission failures, no other process touching the tree). *)
(* FaultSpec adds directories at output and temporary paths, the case in   *)
(* which Path.rename and Path.unlink raise.  TwoRunSpec lets a completed   *)
(* commit run be followed by a second run over the tree it left.  PathSpec *)
(* starts from one file of an arbitrary matching name.                     *)
(* The encoder is taken at its contract: it writes nowhere but to the path *)
(* given with "-o", and it exits with code 0 only after it has written its *)
(* complete output there.                                                  *)
(***************************************************************************)
EXTENDS Integers, Sequences, FiniteSets, TLC

\* ------------------------------------------------------------------ bounds

\* at most this many files exist under the start path when the run begins
MaxFiles == 3

\* a second run is followed over a tree of at most this many files
MaxRerunFiles == 3

\* a candidate name of the path runs has at most this many tokens before the
\* "." of its extension
MaxStemLen == 2

\* ------------------------------------------------------------- path algebra

Dot == "."

\* str.rfind('.') on the tokens of a name: index of the last dot, 0 if none
RECURSIVE RFindDot(_, _)
RFindDot(name, k) ==
    IF k = 0 THEN 0
    ELSE IF name[k] = Dot THEN k
    ELSE RFindDot(name, k - 1)

\* PurePath.stem: the name up to its last dot, unless that dot is the first
\* or the last character of the name
Stem(name) ==
    LET k == RFindDot(name, Len(name))
    IN  IF k > 1 /\ k < Len(name) THEN SubSeq(name, 1, k - 1) ELSE name

\* PurePath.suffix: the last dot and what follows it ("" under the same test)
Suffix(name) ==
    LET k == RFindDot(name, Len(name))
    IN  IF k > 1 /\ k < Len(name) THEN SubSeq(name, k, Len(name)) ELSE << >>

\* PurePath.with_suffix(suffix)
WithSuffix(path, suffix) ==
    LET old == Suffix(path.name)
    IN  [path EXCEPT !.name =
            IF old = << >> THEN path.name \o suffix
            ELSE SubSeq(path.name, 1, Len(path.name) - Len(old)) \o suffix]

\* PurePath.with_name(name): same directory, another name
WithName(path, name) == [path EXCEPT !.name = name]

\* main: dst = file.with_name(file.stem + "-converted.mp4")
OutputPath(file) ==
    WithName(file, Stem(file.name) \o <<"-converted", Dot, "mp4">>)

\* variant: the temporary path keeps the suffix of the output path
TmpPathSameSuffix(dst) == WithSuffix(dst, <<Dot, "mp4">>)

\* transcode_file: tmp_dst = dst.with_suffix(".tmp.mp4")
TmpPath(dst) == WithSuffix(dst, <<Dot, "tmp", Dot, "mp4">>)

\* the glob pattern "*.<ext>": the name ends with "." followed by ext
Matches(name, ext) ==
    /\ Len(name) >= Len(ext) + 1
    /\ SubSeq(name, Len(name) - Len(ext), Len(name)) = <<Dot>> \o ext

\* ------------------------------------------------------- inputs of the run

Root == << >>
Sub == <<"sub">>

P(dir, name) == [dir |-> dir, name |-> name]

\* the files that may exist under the start path when the run begins
InitPaths ==
    { P(Root, <<"a", Dot, "mkv">>),
      P(Root, <<"b", Dot, "mkv">>),
      P(Sub,  <<"a", Dot, "mkv">>),
      P(Root, <<"a", "-converted", Dot, "mp4">>),
      P(Sub,  <<"a", "-converted", Dot, "mp4">>),
      P(Root, <<"a", Dot, "mp4">>),
      P(Root, <<"a", "-converted", Dot, "tmp", Dot, "mp4">>),
      P(Root, <<"a", "-converted", Dot, "tmp", "-converted", Dot, "mp4">>) }

\* values of --ext
Exts == { <<"mkv">>, <<"mp4">> }

\* what --start names
StartKinds == {"dir", "file", "missing"}

\* byte sizes: every file present at the start has SrcBytes bytes; the encoder
\* leaves an output of one of OutBytes (smaller or larger than the source)
SrcBytes == 2
SmallOut == 1
LargeOut == 3
OutBytes == {SmallOut, LargeOut}

Orig == [kind |-> "orig", size |-> SrcBytes]
Partial == [kind |-> "partial", size |-> 0]
Encoded(n) == [kind |-> "encoded", size |-> n]

\* a directory entry (only in the runs with filesystem faults, FaultSpec)
Dir == [kind |-> "dir", size |-> 0]

IsTmpName(name) ==
    /\ Len(name) >= 4
    /\ SubSeq(name, Len(name) - 3, Len(name)) = <<Dot, "tmp", Dot, "mp4">>

\* a file left at a temporary name by an interrupted run holds partial output
InitContent(p) == IF IsTmpName(p.name) THEN Partial ELSE Orig

ArgSets ==
    [ext : Exts, recursive : BOOLEAN, reprocess : BOOLEAN,
     delete : BOOLEAN, commit : BOOLEAN]

\* ------------------------------------------------------------------- state

VARIABLES
    startKind,    \* what args.start resolves to
    args,         \* the parsed command line
    fs,           \* the files under the start path: path -> content
    targets,      \* main: the scan result, in scan order
    i,            \* main: 1-based index of the candidate being handled
    processed, skipped, deleted, failed,   \* main: the four collections
    total_saved,  \* main: the accumulator
    src_size,     \* main: size of the source read before the transcode
    returncode,   \* transcode_file: process.returncode
    success,      \* main: what transcode_file returned
    pc,           \* position of the run
    exit,         \* how the process ended
    earlier       \* what an earlier run over the same tree ended with

vars == <<startKind, args, fs, targets, i, processed, skipped, deleted, failed,
          total_saved, src_size, returncode, success, pc, exit, earlier>>

Exists(p) == p \in DOMAIN fs

\* Path.unlink on an existing file
Unlink(f, p) == [q \in (DOMAIN f) \ {p} |-> f[q]]

\* creating or overwriting a file
Put(f, p, c) == [q \in (DOMAIN f) \cup {p} |-> IF q = p THEN c ELSE f[q]]

IsDir(p) == p \in DOMAIN fs /\ fs[p].kind = "dir"

\* Path.unlink raises on a directory (and on a missing path, which the
\* callers in transcode_file exclude with exists())
UnlinkRaises(p) == IsDir(p)

\* Path.rename raises when the source is missing or when a file is to
\* replace a directory or a directory a file
RenameRaises(from, to) ==
    \/ from \notin DOMAIN fs
    \/ to \in DOMAIN fs /\ IsDir(to) # IsDir(from)

\* variant: a copy, the source of the rename stays
RenameKeeps(f, from, to) == Put(f, to, f[from])

\* Path.rename on an existing file: the target is replaced
Rename(f, from, to) == Put(Unlink(f, from), to, f[from])

Range(s) == { s[k] : k \in 1..Len(s) }

\* the orders in which a traversal may return a set of paths
Orders(S) ==
    { s \in [1..Cardinality(S) -> S] : \A a, b \in 1..Cardinality(S) : s[a] = s[b] => a = b }

\* find_target_files: glob under a directory; on a start path that is no
\* directory pathlib yields nothing and raises nothing
FindTargetFiles ==
    IF startKind # "dir" THEN {}
    ELSE { p \in DOMAIN fs : /\ Matches(p.name, args.ext)
                             /\ (args.recursive \/ p.dir = Root) }

File == targets[i]
Dst == OutputPath(File)
Tmp == TmpPath(Dst)
InLoop == pc = "loop" /\ i <= Len(targets)

\* ------------------------------------------------------------------ initial

\* main, lines 95-100: the locals of a run that has not scanned yet
Fresh ==
    /\ targets = << >>
    /\ i = 1
    /\ processed = << >> /\ skipped = << >> /\ deleted = << >> /\ failed = << >>
    /\ total_saved = 0
    /\ src_size = 0
    /\ returncode = 0
    /\ success = FALSE
    /\ pc = "start"
    /\ exit = "running"

Init ==
    /\ startKind \in StartKinds
    /\ args \in ArgSets
    /\ \E S \in SUBSET InitPaths :
          /\ Cardinality(S) <= MaxFiles
          /\ startKind # "dir" => S = {}
          /\ fs = [p \in S |-> InitContent(p)]
    /\ Fresh
    /\ earlier = << >>

IsArtifactName(name) ==
    /\ Len(name) >= 3
    /\ SubSeq(name, Len(name) - 2, Len(name)) = <<"-converted", Dot, "mp4">>

\* what may sit at a path when filesystem faults are considered: at an
\* output or temporary name that the scan does not match, a directory
FaultContents(p, ext) ==
    {InitContent(p)} \cup
    (IF ~Matches(p.name, ext) /\ (IsTmpName(p.name) \/ IsArtifactName(p.name))
     THEN {Dir} ELSE {})

\* a run over a tree in which rename and unlink can raise
FaultInit ==
    /\ startKind = "dir"
    /\ args \in ArgSets
    /\ \E S \in SUBSET InitPaths :
          /\ Cardinality(S) <= MaxFiles
          /\ fs \in { f \in [S -> {Orig, Partial, Dir}] :
                         \A p \in S : f[p] \in FaultContents(p, args.ext) }
    /\ Fresh
    /\ earlier = << >>

\* ------------------------------------------------------------------ actions

\* main, lines 91-102: resolve the start path and scan
Scan ==
    /\ pc = "start"
    /\ targets' \in Orders(FindTargetFiles)
    /\ pc' = "loop"
    /\ UNCHANGED <<earlier, startKind, args, fs, i, processed, skipped, deleted, failed,
                   total_saved, src_size, returncode, success, exit>>

\* variant: the --reprocess test inverted
ShouldSkipInverted == Exists(Dst) /\ args.reprocess

\* variant: the skip branch does not look for the output artifact
ShouldSkipUnchecked == ~args.reprocess

\* main, line 107
ShouldSkip == Exists(Dst) /\ ~args.reprocess

\* main, line 110: the delete step of the skip branch is taken
DeleteWanted == args.commit /\ args.delete

\* main, lines 107-113: the skip branch; file.unlink() raises when the source
\* is no longer there, which ends the process with a traceback
Skip ==
    /\ InLoop
    /\ ShouldSkip
    /\ skipped' = Append(skipped, File)
    /\ IF DeleteWanted
       THEN IF Exists(File)
            THEN /\ fs' = Unlink(fs, File)
                 /\ deleted' = Append(deleted, File)
                 /\ i' = i + 1
                 /\ UNCHANGED <<pc, exit>>
            ELSE /\ pc' = "crashed"
                 /\ exit' = "nonzero"
                 /\ UNCHANGED <<fs, deleted, i>>
       ELSE /\ i' = i + 1
            /\ UNCHANGED <<fs, deleted, pc, exit>>
    /\ UNCHANGED <<earlier, startKind, args, targets, processed, failed, total_saved,
                   src_size, returncode, success>>

\* main, line 115: file.stat() on a source that is no longer there raises
StatCrash ==
    /\ InLoop
    /\ ~ShouldSkip
    /\ ~Exists(File)
    /\ pc' = "crashed"
    /\ exit' = "nonzero"
    /\ UNCHANGED <<earlier, startKind, args, fs, targets, i, processed, skipped, deleted,
                   failed, total_saved, src_size, returncode, success>>

\* variant: transcode_file ignores its dry_run argument
DryRunIgnored == FALSE

\* transcode_file, line 53: the dry_run argument main passes (line 116)
DryRun == ~args.commit

\* main, lines 115-116 with transcode_file, lines 53-55: the dry run returns
\* True without touching anything
DryRunTranscode ==
    /\ InLoop
    /\ ~ShouldSkip
    /\ Exists(File)
    /\ DryRun
    /\ src_size' = fs[File].size
    /\ success' = TRUE
    /\ pc' = "returned"
    /\ UNCHANGED <<earlier, startKind, args, fs, targets, i, processed, skipped, deleted,
                   failed, total_saved, returncode, exit>>

\* variant: the temporary file is left behind
CleanupForgotten(f, tmp) == f

\* transcode_file, lines 75-76 and 85-86: the cleanup of the temporary file
Cleanup(f, tmp) == IF tmp \in DOMAIN f THEN Unlink(f, tmp) ELSE f

\* main, lines 115-116 with transcode_file, lines 57-66: the encoder starts
Launch ==
    /\ InLoop
    /\ ~ShouldSkip
    /\ Exists(File)
    /\ ~DryRun
    /\ src_size' = fs[File].size
    /\ pc' = "encoding"
    /\ UNCHANGED <<earlier, startKind, args, fs, targets, i, processed, skipped, deleted,
                   failed, total_saved, returncode, success, exit>>

\* variant: the handler returns False without removing the temporary file
LaunchFailKeepsTmp ==
    /\ InLoop
    /\ ~ShouldSkip
    /\ Exists(File)
    /\ ~DryRun
    /\ src_size' = fs[File].size
    /\ success' = FALSE
    /\ pc' = "returned"
    /\ UNCHANGED <<earlier, startKind, args, fs, targets, i, processed, skipped,
                   deleted, failed, total_saved, returncode, exit>>

\* transcode_file, lines 58 and 83-87: Popen raises (no encoder binary); the
\* handler removes the temporary file if there is one and returns False; an
\* unlink that raises inside the handler leaves transcode_file and main
LaunchFail ==
    /\ InLoop
    /\ ~ShouldSkip
    /\ Exists(File)
    /\ ~DryRun
    /\ src_size' = fs[File].size
    /\ IF UnlinkRaises(Tmp)
       THEN /\ pc' = "crashed" /\ exit' = "nonzero"   \* line 86 raises
            /\ UNCHANGED <<fs, success>>
       ELSE /\ fs' = Cleanup(fs, Tmp)
            /\ success' = FALSE
            /\ pc' = "returned" /\ exit' = exit
    /\ UNCHANGED <<earlier, startKind, args, targets, i, processed, skipped, deleted,
                   failed, total_saved, returncode>>

\* variant: the encoder is pointed at the final output path
EncoderTargetFinal == Dst

\* transcode_file, line 61: the output path handed to the encoder ("-o")
EncoderTarget == Tmp

\* the encoder creates or overwrites its output path and holds partial
\* output there while it runs
EncoderWrite ==
    /\ pc = "encoding"
    /\ ~IsDir(EncoderTarget)
    /\ fs' = Put(fs, EncoderTarget, Partial)
    /\ UNCHANGED <<earlier, startKind, args, targets, i, processed, skipped, deleted,
                   failed, total_saved, src_size, returncode, success, pc, exit>>

\* the encoder completes its output at its output path and exits with 0
EncoderSucceed ==
    /\ pc = "encoding"
    /\ ~IsDir(EncoderTarget)
    /\ \E n \in OutBytes : fs' = Put(fs, EncoderTarget, Encoded(n))
    /\ returncode' = 0
    /\ pc' = "exited"
    /\ UNCHANGED <<earlier, startKind, args, targets, i, processed, skipped, deleted,
                   failed, total_saved, src_size, success, exit>>

\* the encoder gives up with a non-zero code, leaving what it had written
EncoderFail ==
    /\ pc = "encoding"
    /\ returncode' = 1
    /\ pc' = "exited"
    /\ UNCHANGED <<earlier, startKind, args, fs, targets, i, processed, skipped, deleted,
                   failed, total_saved, src_size, success, exit>>

\* variant: the return code is not looked at
PromoteAlways == TRUE

\* transcode_file, line 73: the temporary file is promoted on return code 0
Promote == returncode = 0

\* transcode_file, lines 72-87, after process.wait() returned: on a non-zero
\* code the cleanup and False; on 0 the rename and True; a rename that raises
\* runs the handler (cleanup, False); an unlink that raises (line 76, then
\* again line 86 in the handler) leaves transcode_file and main
TranscodeReturn ==
    /\ pc = "exited"
    /\ IF Promote /\ ~RenameRaises(Tmp, Dst)
       THEN /\ fs' = Rename(fs, Tmp, Dst)
            /\ success' = TRUE
            /\ pc' = "returned" /\ exit' = exit
       ELSE IF UnlinkRaises(Tmp)
            THEN /\ pc' = "crashed" /\ exit' = "nonzero"
                 /\ UNCHANGED <<fs, success>>
            ELSE /\ fs' = Cleanup(fs, Tmp)
                 /\ success' = FALSE
                 /\ pc' = "returned" /\ exit' = exit
    /\ UNCHANGED <<earlier, startKind, args, targets, i, processed, skipped, deleted,
                   failed, total_saved, src_size, returncode>>

\* variant: the operands of the subtraction swapped
SavedSwapped(before, after) == after - before

\* main, line 122
Saved(before, after) == before - after

\* variant: the delete step outside the success branch
DeleteRegardless(ok) == args.commit /\ args.delete

\* main, lines 118-123: the source is deleted after the transcode
DeleteAfterTranscode(ok) == ok /\ args.commit /\ args.delete

\* main, lines 118-122: the accumulator after the transcode
TotalAfterTranscode(ok) ==
    IF ok /\ args.commit
    THEN total_saved + Saved(src_size, fs[Dst].size)
    ELSE total_saved

\* main, lines 118-127: record the outcome of transcode_file
Record ==
    /\ pc = "returned"
    /\ processed' = IF success THEN Append(processed, <<File, Dst>>) ELSE processed
    /\ failed' = IF success THEN failed ELSE Append(failed, File)
    /\ total_saved' = TotalAfterTranscode(success)
    /\ IF DeleteAfterTranscode(success)
       THEN IF Exists(File)
            THEN /\ fs' = Unlink(fs, File)
                 /\ deleted' = Append(deleted, File)
                 /\ i' = i + 1 /\ pc' = "loop" /\ exit' = exit
            ELSE /\ pc' = "crashed" /\ exit' = "nonzero"
                 /\ UNCHANGED <<fs, deleted, i>>
       ELSE /\ i' = i + 1 /\ pc' = "loop"
            /\ UNCHANGED <<fs, deleted, exit>>
    /\ UNCHANGED <<earlier, startKind, args, targets, skipped, src_size, returncode, success>>

\* main, lines 129-147: the loop is over, the summary is printed, exit 0
Summary ==
    /\ pc = "loop"
    /\ i > Len(targets)
    /\ pc' = "done"
    /\ exit' = "zero"
    /\ UNCHANGED <<earlier, startKind, args, fs, targets, i, processed, skipped, deleted,
                   failed, total_saved, src_size, returncode, success>>

\* the process is killed from outside while the encoder runs or has just
\* exited (no handler of transcode.py runs)
Kill ==
    /\ pc \in {"encoding", "exited"}
    /\ pc' = "killed"
    /\ exit' = "signal"
    /\ UNCHANGED <<earlier, startKind, args, fs, targets, i, processed, skipped, deleted,
                   failed, total_saved, src_size, returncode, success>>

Next ==
    \/ Scan
    \/ Skip
    \/ StatCrash
    \/ DryRunTranscode
    \/ Launch
    \/ LaunchFail
    \/ EncoderWrite
    \/ EncoderSucceed
    \/ EncoderFail
    \/ TranscodeReturn
    \/ Record
    \/ Summary
    \/ Kill

Spec == Init /\ [][Next]_vars

\* the sources recorded as processed
ProcessedSources == { processed[k][1] : k \in 1..Len(processed) }

\* a commit run without --reprocess is run again over the tree the completed
\* first run left, with the same --start, --ext, -r and -c and with or
\* without --delete: main starts with fresh locals (lines 95-100)
Rerun ==
    /\ pc = "done"
    /\ earlier = << >>
    /\ args.commit /\ ~args.reprocess
    /\ Cardinality(DOMAIN fs) <= MaxRerunFiles
    /\ earlier' = << [processed |-> ProcessedSources,
                      skipped |-> Range(skipped),
                      failed |-> Range(failed),
                      files |-> DOMAIN fs] >>
    /\ \E d \in BOOLEAN : args' = [args EXCEPT !.delete = d]
    /\ targets' = << >>
    /\ i' = 1
    /\ processed' = << >> /\ skipped' = << >> /\ deleted' = << >> /\ failed' = << >>
    /\ total_saved' = 0
    /\ src_size' = 0
    /\ returncode' = 0
    /\ success' = FALSE
    /\ pc' = "start"
    /\ exit' = "running"
    /\ UNCHANGED <<startKind, fs>>

TwoRunNext == Next \/ Rerun

\* two consecutive commit runs without --reprocess
TwoRunSpec == Init /\ [][TwoRunNext]_vars

\* the same run over a tree with directories at output paths
FaultSpec == FaultInit /\ [][Next]_vars

\* ---------------------------------------------- runs over arbitrary names

\* the pieces file names are made of in the path runs
PathTokens == {"a", Dot, "mp4", "tmp", "-converted"}

\* values of --ext in the path runs, one of them with a dot inside
PathExts == Exts \cup { <<"tmp", Dot, "mp4">> }

\* every name the glob "*.<ext>" can return: anything, ".", ext
PathNames ==
    { s \o <<Dot>> \o e :
        s \in UNION { [1..k -> PathTokens] : k \in 0..MaxStemLen },
        e \in PathExts }

\* the start directory holds one file of an arbitrary matching name and
\* possibly regular files at the output and temporary paths derived from it
PathInit ==
    /\ startKind = "dir"
    /\ \E n \in PathNames, e \in PathExts, r, d, c \in BOOLEAN :
          /\ Matches(n, e)
          /\ args = [ext |-> e, recursive |-> FALSE, reprocess |-> r,
                     delete |-> d, commit |-> c]
          /\ \E S \in SUBSET {OutputPath(P(Root, n)), TmpPath(OutputPath(P(Root, n)))} :
                fs = [p \in S \cup {P(Root, n)} |->
                        IF p = P(Root, n) THEN Orig ELSE InitContent(p)]
    /\ Fresh
    /\ earlier = << >>

PathSpec == PathInit /\ [][Next]_vars

\* ------------------------------------------------------------------ claims

\* the output artifact paths of the candidates of the scan
Artifacts == { OutputPath(t) : t \in Range(targets) }

\* content appears at path d, or the content at d is replaced, in this step
Written(d) == d \in DOMAIN fs' /\ (d \notin DOMAIN fs \/ fs'[d] # fs[d])

\* path d is the same before and after this step
Untouched(d) ==
    /\ (d \in DOMAIN fs) = (d \in DOMAIN fs')
    /\ d \in DOMAIN fs => fs'[d] = fs[d]

\* this step is the rename of transcode_file after the encoder exited with 0
IsPromotion ==
    /\ pc = "exited" /\ returncode = 0 /\ pc' = "returned"
    /\ Exists(Tmp) /\ fs[Tmp].kind = "encoded"
    /\ fs' = Rename(fs, Tmp, Dst)

NoPartialArtifact ==
    \A d \in Artifacts : Exists(d) => fs[d].kind # "partial"

C1_Step ==
    /\ \A d \in Artifacts : Written(d) => IsPromotion /\ d = Dst
    /\ pc = "encoding" =>
          \A q \in (DOMAIN fs) \cup (DOMAIN fs') : q # Tmp => Untouched(q)
    /\ pc' = "killed" => fs' = fs

C2_DryRunFrame ==
    [][~args.commit => fs' = fs /\ pc' \notin {"encoding", "exited", "killed"}]_vars

\* a dry run with --delete and --reprocess that completed with a candidate
\* reported as processed and one whose artifact already existed
C2_Witness ==
    /\ pc = "done" /\ ~args.commit /\ args.delete /\ args.reprocess
    /\ Len(processed) >= 2
    /\ \E t \in Range(targets) : Exists(OutputPath(t))

C3_Step ==
    (InLoop /\ Exists(Dst) /\ ~args.reprocess) =>
        /\ skipped' = Append(skipped, File)
        /\ processed' = processed /\ failed' = failed
        /\ pc' \in {"loop", "crashed"}
        /\ fs'[Dst] = fs[Dst]

\* C3: when the loop reaches a candidate whose output artifact exists and
\* --reprocess is absent, the candidate is recorded as skipped in that step,
\* the encoder is not started for it, and it is in neither processed nor
\* failed, in dry-run and in commit mode alike.
C3_SkipExisting ==
    /\ [][C3_Step]_vars
    /\ [](\A t \in Range(skipped) : t \notin ProcessedSources /\ t \notin Range(failed))

\* a completed run without --reprocess that skipped a candidate and
\* transcoded another
C3_Witness ==
    /\ pc = "done" /\ Len(skipped) >= 1 /\ Len(processed) >= 1
    /\ ~args.reprocess

\* the candidates the loop has recorded so far
Recorded == Range(skipped) \cup ProcessedSources \cup Range(failed)

InOne(t) ==
    \/ t \in ProcessedSources /\ t \notin Range(skipped) /\ t \notin Range(failed)
    \/ t \notin ProcessedSources /\ t \in Range(skipped) /\ t \notin Range(failed)
    \/ t \notin ProcessedSources /\ t \notin Range(skipped) /\ t \in Range(failed)

\* C4: after a run that completes, every scanned candidate is in exactly one
\* of processed, skipped, failed (once), and every member of deleted is a
\* member of processed or of skipped.
C4_Partition ==
    pc = "done" =>
        /\ \A t \in Range(targets) : InOne(t)
        /\ Len(processed) + Len(skipped) + Len(failed) = Len(targets)
        /\ Range(deleted) \subseteq ProcessedSources \cup Range(skipped)

\* a completed run with a processed, a skipped and a failed candidate and a
\* deleted source
C4_Witness ==
    /\ pc = "done"
    /\ Len(processed) >= 1 /\ Len(skipped) >= 1 /\ Len(failed) >= 1
    /\ Len(deleted) >= 1

\* C5: a candidate's source is deleted by the run, and recorded in deleted,
\* if and only if --commit and --delete are set and the candidate was skipped
\* or transcoded successfully; the source of a candidate recorded as failed
\* is still there, and a skipped candidate under --commit --delete is in
\* both skipped and deleted.
C5_DeleteIff ==
    \A t \in Recorded :
        /\ t \in Range(deleted) <=>
              (args.commit /\ args.delete /\ t \notin Range(failed))
        /\ t \notin Range(deleted) => Exists(t)

C6_Step ==
    (args.commit /\ args.reprocess /\ i <= Len(targets) /\ Exists(Dst)) =>
        /\ (InLoop /\ Exists(File)) =>
              pc' \in {"encoding", "returned"} /\ skipped' = skipped
        /\ (pc \in {"loop", "encoding", "exited"} /\ ~(pc = "exited" /\ returncode = 0)) =>
              Untouched(Dst)
        /\ (pc = "exited" /\ pc' = "returned" /\ success') =>
              returncode = 0 /\ fs'[Dst].kind = "encoded"

\* C6: with --reprocess in commit mode a candidate whose output artifact
\* exists is handed to the encoder again, and the artifact is replaced only
\* by the promotion after return code 0: when the encoder fails to start or
\* exits non-zero, the artifact is still there with the content it had.
C6_ReprocessKeepsArtifact == [][C6_Step]_vars

\* --reprocess over an existing artifact, the encoder wrote partial output and
\* exited non-zero, transcode_file returned False: the old artifact is there
C6_Witness ==
    /\ pc = "returned" /\ i = 1 /\ ~success /\ returncode # 0
    /\ args.commit /\ args.reprocess
    /\ Exists(Dst) /\ fs[Dst] = Orig

C7_Step ==
    /\ (pc = "encoding" /\ pc' # "killed") => Untouched(Dst)
    /\ (pc = "exited" /\ returncode # 0 /\ pc' # "killed") =>
          /\ pc' = "returned" /\ ~success'
          /\ Tmp \notin DOMAIN fs'
          /\ Untouched(Dst)
    /\ (pc = "returned" /\ ~success) =>
          /\ failed' = Append(failed, File)
          /\ processed' = processed /\ skipped' = skipped /\ deleted' = deleted
          /\ fs' = fs

\* C7: in commit mode, when the encoder exits with a non-zero code, after
\* the transcode step the temporary file does not exist, the step has created
\* or changed no output artifact, transcode_file returns False and the
\* candidate is recorded as failed.
C7_EncoderFailure ==
    /\ [][args.commit => C7_Step]_vars
    /\ []((pc = "returned" /\ ~success) => ~Exists(Tmp))

\* the encoder of the first candidate exited non-zero; the candidate was
\* recorded as failed and neither temporary file nor artifact is there
C7_Witness ==
    /\ pc = "loop" /\ i = 2 /\ args.commit /\ returncode # 0
    /\ targets[i - 1] \in Range(failed)
    /\ ~Exists(OutputPath(targets[i - 1]))
    /\ ~Exists(TmpPath(OutputPath(targets[i - 1])))

C8_Step ==
    /\ (pc = "exited" /\ returncode = 0 /\ pc' # "killed") =>
          /\ pc' = "returned" /\ success'
          /\ Dst \in DOMAIN fs' /\ fs'[Dst].kind = "encoded"
          /\ Tmp \notin DOMAIN fs'
    /\ (pc = "returned" /\ success) =>
          /\ pc' = "loop" /\ i' = i + 1
          /\ Dst \in DOMAIN fs' /\ Tmp \notin DOMAIN fs'
          /\ processed' = Append(processed, <<File, Dst>>)
          /\ failed' = failed /\ skipped' = skipped
          /\ args.delete => File \notin DOMAIN fs' /\ deleted' = Append(deleted, File)

\* C8: in commit mode, when the encoder exits with code 0, after the
\* candidate has been handled the output artifact exists, the temporary file
\* does not, the candidate is recorded as processed, and with --delete the
\* source no longer exists.
C8_EncoderSuccess == [][args.commit => C8_Step]_vars

\* a commit run with --delete has handled a successfully encoded candidate
C8_Witness ==
    /\ pc = "loop" /\ i > 1 /\ args.commit /\ args.delete /\ returncode = 0
    /\ targets[i - 1] \in ProcessedSources
    /\ Exists(OutputPath(targets[i - 1]))
    /\ ~Exists(targets[i - 1])

RECURSIVE SumSaved(_)
SumSaved(k) ==
    IF k = 0 THEN 0
    ELSE SumSaved(k - 1) + (SrcBytes - fs[processed[k][2]].size)

C9_Step ==
    /\ total_saved' - total_saved =
          IF pc = "returned" /\ success /\ args.commit
          THEN src_size - fs'[Dst].size
          ELSE 0
    /\ (processed' # processed) = (pc = "returned" /\ success)
    /\ (InLoop /\ pc' \in {"encoding", "returned"}) => src_size' = fs[File].size
    /\ ~InLoop => src_size' = src_size

\* C9: in commit mode the accumulator grows, exactly when a candidate is
\* recorded as processed, by the source size read before the transcode minus
\* the artifact size read after it, and by nothing in any other step (skipped
\* and failed candidates add nothing); a negative term or total is accepted.
\* Where no artifact is itself a candidate (--ext mkv) the total at the end
\* is the sum over processed of source size minus artifact size.
C9_TotalSaved ==
    /\ total_saved = 0 /\ [][C9_Step]_vars
    /\ []((pc = "done" /\ args.commit /\ args.ext = <<"mkv">>) =>
            total_saved = SumSaved(Len(processed)))
    /\ [](~args.commit => total_saved = 0)

\* a completed commit run whose outputs were larger than the sources, with a
\* skipped and a failed candidate beside the processed one
C9_Witness ==
    /\ pc = "done" /\ exit = "zero" /\ args.commit
    /\ total_saved < 0
    /\ Len(processed) >= 1 /\ Len(skipped) + Len(failed) >= 1

\* C10: when --start names no directory the run fails with an input error
\* and a non-zero exit before any per-file work: no candidate is decided,
\* transcoded or deleted and the run never completes as a normal pass with
\* exit status zero.
C10_BadStartIsFatal ==
    startKind # "dir" =>
        /\ pc # "done" /\ exit # "zero"
        /\ Recorded = {} /\ deleted = << >>

\* every scanned candidate has been recorded
AllDecided == Range(targets) \subseteq Recorded

\* C11: a per-file failure never aborts the pass: the process never ends
\* with a traceback, every position of a run that was not killed from outside
\* has a next step until the summary is reached, and at the summary every
\* candidate of the scan has been decided and the exit status is zero, for
\* any number of candidates.
C11_PassCompletes ==
    /\ pc # "crashed" /\ exit # "nonzero"
    /\ pc \notin {"done", "killed"} => ENABLED Next
    /\ pc = "done" => AllDecided /\ exit = "zero"

\* control is inside a call of transcode_file (or main is about to make it)
InTranscodeCall ==
    \/ InLoop /\ ~ShouldSkip /\ Exists(File)
    \/ pc \in {"encoding", "exited"}

C12_Step ==
    InTranscodeCall =>
        /\ pc' # "crashed"
        /\ (pc' = "returned" /\ ~success') => Tmp \notin DOMAIN fs'

\* C12: transcode_file never raises to its caller: whatever fails while the
\* encoder is launched, read from or awaited, or while the temporary file is
\* promoted or cleaned up, the call returns, and when it returns False the
\* temporary file is gone.
C12_NeverRaises == [][C12_Step]_vars

\* the candidates for which this run has started the encoder
Invoked ==
    ProcessedSources \cup Range(failed) \cup
    (IF pc \in {"encoding", "exited", "returned"} THEN {File} ELSE {})

\* C13: in the second of two consecutive commit runs without --reprocess the
\* encoder is started exactly for the candidates that had no output artifact
\* when the first run ended, these are candidates that failed in the first
\* run, none of them was processed or skipped by the first run, and with
\* --delete every candidate whose artifact was there is recorded as skipped
\* and as deleted without being encoded again.
C13_Resume ==
    earlier # << >> =>
        /\ \A c \in Invoked :
              /\ OutputPath(c) \notin earlier[1].files
              /\ c \in earlier[1].failed
              /\ c \notin earlier[1].processed \cup earlier[1].skipped
        /\ \A c \in Range(skipped) :
              /\ OutputPath(c) \in earlier[1].files
              /\ args.delete => c \in Range(deleted) /\ ~Exists(c)

\* the temporary path transcode_file derives for candidate t
TmpOf(t) == TmpPath(OutputPath(t))

\* the candidates main has already left behind in this run
Handled == { targets[k] : k \in 1..(i - 1) }

\* C14 as stated: whenever transcode_file has returned the temporary path of
\* its candidate does not exist, and between candidates and at the end of a
\* completed run no temporary file of a handled candidate is there.
C14_TmpOnlyInFlight ==
    /\ pc = "returned" => ~Exists(Tmp)
    /\ pc \in {"loop", "done"} => \A t \in Handled : ~Exists(TmpOf(t))

\* this step moves the temporary file of candidate t to its final name
PromotesTmpOf(t) ==
    /\ Exists(TmpOf(t)) /\ TmpOf(t) \notin DOMAIN fs'
    /\ OutputPath(t) \in DOMAIN fs' /\ fs'[OutputPath(t)] = fs[TmpOf(t)]

C14_Step ==
    /\ \A t \in Range(targets) :
          PromotesTmpOf(t) =>
              pc = "exited" /\ returncode = 0 /\ t = File /\ pc' = "returned"
    /\ (InLoop /\ (ShouldSkip \/ DryRun)) => Untouched(Tmp)

C14_State ==
    args.commit =>
        /\ pc = "returned" => ~Exists(Tmp)
        /\ \A t \in ProcessedSources \cup Range(failed) : ~Exists(TmpOf(t))

\* C14, amended: in commit mode, whenever transcode_file has returned
\* (success, non-zero exit or a handled exception) the temporary path of its
\* candidate does not exist, and no temporary file of a candidate that went
\* through transcode_file is there afterwards; a temporary file is moved to
\* the final name only by the step that follows return code 0 of its own
\* candidate; a temporary file found from an interrupted earlier run is left
\* alone where the candidate is skipped or the run is a dry run.
C14_TmpRemovedAfterTranscode == [][C14_Step]_vars /\ []C14_State

\* a commit run that ended after one candidate failed and another was
\* encoded, with neither temporary file left
C14_Witness ==
    /\ pc = "done" /\ args.commit
    /\ Range(failed) # {} /\ ProcessedSources # {}
    /\ \A t \in Range(targets) : ~Exists(TmpOf(t))

\* C15: for every candidate the scan returns, whatever its name and whatever
\* --ext, the temporary path transcode_file derives differs from the
\* candidate's source path and from its final output path.
C15_TmpDistinct ==
    \A t \in Range(targets) : TmpOf(t) # t /\ TmpOf(t) # OutputPath(t)

\* the encoder is writing the temporary file of a candidate whose own name
\* ends with ".tmp.mp4", beside its source and an existing output
C15_Witness ==
    /\ pc = "encoding" /\ IsTmpName(File.name)
    /\ Exists(File) /\ Exists(Tmp) /\ Exists(Dst)
    /\ fs[Tmp].kind = "partial" /\ fs[File].kind = "orig"

\* this step is main's file.unlink() of the current candidate's source
DeletesSource == deleted' # deleted

C16_Step ==
    DeletesSource =>
        /\ deleted' = Append(deleted, File)
        /\ Exists(File) /\ File \notin DOMAIN fs'
        /\ Exists(Dst) /\ fs[Dst].kind # "partial"
        /\ Dst \in DOMAIN fs' /\ fs'[Dst] = fs[Dst]

\* C16: whenever the run deletes a source file, in the skip branch or in the
\* success branch, the output artifact of that same candidate exists (and is
\* no partial output) when the source is removed, and is still there after
\* the removal.
C16_DeleteOnlyWithArtifact == [][C16_Step]_vars

\* a completed run that deleted one source in the skip branch and another in
\* the success branch; both artifacts are there, both sources are gone
C16_Witness ==
    /\ pc = "done"
    /\ \E s \in Range(skipped), t \in ProcessedSources :
          /\ {s, t} \subseteq Range(deleted)
          /\ ~Exists(s) /\ ~Exists(t)
          /\ Exists(OutputPath(s)) /\ Exists(OutputPath(t))

\* no candidate of the scan sits at the output or temporary path of a
\* candidate of the same scan
C17_PathsApart ==
    \A t \in Range(targets), u \in Range(targets) :
        OutputPath(t) # u /\ TmpOf(t) # u

\* at the end of a completed run the artifact of every deleted source exists
C17_ArtifactsKept ==
    pc = "done" => \A t \in Range(deleted) : Exists(OutputPath(t))

\* a step taken while candidate File is handled leaves the source and the
\* artifact of every other candidate as they were
C17_OthersUntouched ==
    (pc \notin {"start", "done"} /\ i <= Len(targets)) =>
        \A u \in Range(targets) \ {File} :
            Untouched(u) /\ (OutputPath(u) # Dst => Untouched(OutputPath(u)))

\* C17 as stated: for every scan result and every --ext the artifact path and
\* the temporary path of a candidate are not the source path of a candidate
\* of the same scan, and an artifact that justified deleting a source still
\* exists when the run ends.
C17_NoCrossCandidateDamage == C17_PathsApart /\ C17_ArtifactsKept

====
